---------------------------- MODULE Spec2Model ----------------------------
(***************************************************************************)
(* Model of app.py: the question line classifier (is_question), the       *)
(* single-pass question assembler (extract_questions_from_pdf) and the    *)
(* classification / option backfill loop of main.                         *)
(*                                                                         *)
(* A Python str is modelled as a sequence of characters, each character a *)
(* one-element TLA+ string.  Two code points that matter for str.lower()  *)
(* are written by name: "U+0130" (LATIN CAPITAL LETTER I WITH DOT ABOVE)  *)
(* and "U+0307" (COMBINING DOT ABOVE).                                     *)
(***************************************************************************)
EXTENDS Integers, Sequences, FiniteSets, TLC

VARIABLES
    classifier,        \* module global: "None" or "pipeline" (lines 14-17)
    pc,                \* position of the script run
    paragraphs,        \* extract_questions_from_pdf: the stripped non-empty lines
    pos,               \* index of the next paragraph of the for loop (line 66)
    questions,         \* the list of question dicts
    current_question,  \* <<>> for None, <<q>> for the dict being built
    question_number,   \* the counter of line 64
    qi,                \* index of the next question of the loop of main (line 324)
    text_arg,          \* is_question called on its own: the argument
    verdict,           \* is_question called on its own: "none" or the returned bool
    classifier_calls,  \* the calls of line 102 so far: text and candidate_labels
    session_answers,   \* st.session_state.answers: <<>> if absent, else <<dict>>
    session_marked,    \* st.session_state.marked_questions: <<>> or <<set>>
    session_current    \* st.session_state.current_question: <<>> or <<index>>

\* st.session_state of the browser session
session == <<session_answers, session_marked, session_current>>

vars == <<classifier, pc, paragraphs, pos, questions, current_question,
          question_number, qi, text_arg, verdict, classifier_calls,
          session_answers, session_marked, session_current>>

-----------------------------------------------------------------------------
(* Bounds of the model *)

\* longest run of filler characters in a line given to is_question on its own
MaxFill == 18

\* most lines of an uploaded document (besides the fixed scenario documents)
MaxLines == 3

-----------------------------------------------------------------------------
(* Python str primitives *)

UpperCase == <<"A", "B", "C", "D", "E", "F", "G", "H", "I", "J", "K", "L", "M",
               "N", "O", "P", "Q", "R", "S", "T", "U", "V", "W", "X", "Y", "Z">>
LowerCase == <<"a", "b", "c", "d", "e", "f", "g", "h", "i", "j", "k", "l", "m",
               "n", "o", "p", "q", "r", "s", "t", "u", "v", "w", "x", "y", "z">>

\* the lower case of each upper case letter
LowerOf == [c \in {UpperCase[i] : i \in 1..26} |->
               LowerCase[CHOOSE i \in 1..26 : UpperCase[i] = c]]

\* str.lower() of one character: a string, since U+0130 lowers to two code points
LowerChar(c) ==
    IF c \in DOMAIN LowerOf THEN <<LowerOf[c]>>
    ELSE IF c = "U+0130" THEN <<"i", "U+0307">>
    ELSE <<c>>

RECURSIVE LowerFrom(_, _)
LowerFrom(s, i) ==
    IF i > Len(s) THEN <<>> ELSE LowerChar(s[i]) \o LowerFrom(s, i + 1)

\* str.lower()
lower(s) == LowerFrom(s, 1)

\* \s of re, and the characters str.strip() removes
IsSpace(c) == c \in {" ", "\t"}

\* \d of re
IsDigit(c) == c \in {"0", "1", "2", "3", "4", "5", "6", "7", "8", "9"}

\* the position after a greedy \s* that starts at i
RECURSIVE SkipSpaces(_, _)
SkipSpaces(s, i) ==
    IF i <= Len(s) /\ IsSpace(s[i]) THEN SkipSpaces(s, i + 1) ELSE i

\* the position before the white space that ends at i
RECURSIVE SkipSpacesBack(_, _)
SkipSpacesBack(s, i) ==
    IF i >= 1 /\ IsSpace(s[i]) THEN SkipSpacesBack(s, i - 1) ELSE i

\* str.strip()
strip(s) ==
    LET first == SkipSpaces(s, 1)
        last  == SkipSpacesBack(s, Len(s))
    IN  IF first > Len(s) THEN <<>> ELSE SubSeq(s, first, last)

\* sub in s
Contains(sub, s) ==
    \E i \in 1..(Len(s) - Len(sub) + 1) :
        \A k \in 1..Len(sub) : s[i + k - 1] = sub[k]

\* s[:n] with the slice forgotten
Prefix_Whole(s, n) == s

\* s[:n]
Prefix(s, n) == SubSeq(s, 1, IF Len(s) < n THEN Len(s) ELSE n)

\* the position after a greedy \d* that starts at i
RECURSIVE SkipDigits(_, _)
SkipDigits(s, i) ==
    IF i <= Len(s) /\ IsDigit(s[i]) THEN SkipDigits(s, i + 1) ELSE i

\* the literal word matches s at i under re.IGNORECASE
MatchesWordAt(s, i, word) ==
    /\ i + Len(word) - 1 <= Len(s)
    /\ \A k \in 1..Len(word) : LowerChar(s[i + k - 1]) = <<word[k]>>

\* [a-d] under re.IGNORECASE
IsLetterAD(c) == c \in {"a", "b", "c", "d", "A", "B", "C", "D"}

-----------------------------------------------------------------------------
(* is_question, lines 22-50 *)

MinLength == 20

NumberPrefixLen == 20

solution_indicators ==
    { <<"s", "o", "l", "u", "t", "i", "o", "n", ":">>,
      <<"a", "n", "s", "w", "e", "r", " ", "k", "e", "y">>,
      <<"e", "x", "p", "l", "a", "n", "a", "t", "i", "o", "n", ":">>,
      <<"a", "n", "s", "w", "e", "r", "s", ":">>,
      <<"c", "o", "r", "r", "e", "c", "t", " ", "o", "p", "t", "i", "o", "n">>,
      <<"k", "e", "y", " ", "a", "n", "s", "w", "e", "r", "s">>,
      <<"s", "o", "l", ".">>,
      <<"a", "n", "s", ".">> }

question_indicators ==
    { <<"w", "h", "a", "t">>,
      <<"w", "h", "i", "c", "h">>,
      <<"h", "o", "w", " ", "m", "a", "n", "y">>,
      <<"c", "a", "l", "c", "u", "l", "a", "t", "e">>,
      <<"d", "e", "t", "e", "r", "m", "i", "n", "e">>,
      <<"f", "i", "n", "d">>,
      <<"p", "r", "o", "v", "e">>,
      <<"s", "h", "o", "w", " ", "t", "h", "a", "t">>,
      <<"r", "a", "t", "i", "o", " ", "o", "f">>,
      <<"v", "a", "l", "u", "e", " ", "o", "f">> }

\* re.match(r'^\s*\d+\.?\s*[a-d]\s*$', text, re.IGNORECASE)
AnswerKeyRow(text) ==
    LET i == SkipSpaces(text, 1)
        j == SkipDigits(text, i)
        k == IF j <= Len(text) /\ text[j] = "." THEN j + 1 ELSE j
        m == SkipSpaces(text, k)
    IN  /\ j > i
        /\ m <= Len(text)
        /\ IsLetterAD(text[m])
        /\ SkipSpaces(text, m + 1) = Len(text) + 1

\* re.match(r'^\s*(Q|Question)?\s*\d+[.)]', head, re.IGNORECASE)
NumberingPrefix(head) ==
    \E word \in { <<>>, <<"q">>, <<"q", "u", "e", "s", "t", "i", "o", "n">> } :
        LET i == SkipSpaces(head, 1)
            j == SkipSpaces(head, i + Len(word))
            k == SkipDigits(head, j)
        IN  /\ MatchesWordAt(head, i, word)
            /\ k > j
            /\ k <= Len(head)
            /\ head[k] \in {".", ")"}

is_question(arg) ==
    LET text == strip(lower(arg))
    IN  IF Len(text) < MinLength THEN FALSE
        ELSE IF \E indicator \in solution_indicators : Contains(indicator, text)
             THEN FALSE
        ELSE IF AnswerKeyRow(text) THEN FALSE
        ELSE IF \E indicator \in question_indicators : Contains(indicator, text)
             THEN TRUE
        ELSE IF NumberingPrefix(Prefix(text, NumberPrefixLen)) THEN TRUE
        ELSE FALSE

-----------------------------------------------------------------------------
(* The extracted text of the uploaded PDF, as its lines (text.split('\n')) *)

\* "Instructions: read carefully."
LineInstructions ==
    <<"I", "n", "s", "t", "r", "u", "c", "t", "i", "o", "n", "s", ":", " ",
      "r", "e", "a", "d", " ", "c", "a", "r", "e", "f", "u", "l", "l", "y",
      ".">>

\* "1. What is the value of g?"
LineQ1 ==
    <<"1", ".", " ", "W", "h", "a", "t", " ", "i", "s", " ", "t", "h", "e",
      " ", "v", "a", "l", "u", "e", " ", "o", "f", " ", "g", "?">>

\* "(a) 9.8"
LineA98 ==
    <<"(", "a", ")", " ", "9", ".", "8">>

\* "(b) 10"
LineB10 ==
    <<"(", "b", ")", " ", "1", "0">>

\* "Solution: g = 9.8 m/s^2"
LineSolution ==
    <<"S", "o", "l", "u", "t", "i", "o", "n", ":", " ", "g", " ", "=", " ",
      "9", ".", "8", " ", "m", "/", "s", "^", "2">>

\* "2. Find the ratio of masses."
LineQ2 ==
    <<"2", ".", " ", "F", "i", "n", "d", " ", "t", "h", "e", " ", "r", "a",
      "t", "i", "o", " ", "o", "f", " ", "m", "a", "s", "s", "e", "s",
      ".">>

\* "(a) 1:2"
LineA12 ==
    <<"(", "a", ")", " ", "1", ":", "2">>

\* "  "
LineBlank ==
    <<" ", " ">>

\* "  in m/s^2 "
LinePadded ==
    <<" ", " ", "i", "n", " ", "m", "/", "s", "^", "2", " ">>

\* "(d) Which value of g is used?"
LineOptionQuestion ==
    <<"(", "d", ")", " ", "W", "h", "i", "c", "h", " ", "v", "a", "l", "u",
      "e", " ", "o", "f", " ", "g", " ", "i", "s", " ", "u", "s", "e", "d",
      "?">>

\* the document of the specification's Scenario A
ScenarioA ==
    <<LineInstructions, LineQ1, LineA98, LineB10, LineSolution, LineQ2, LineA12>>

LinePool ==
    {LineQ1, LineA98, LineSolution, LineQ2, LineA12, LineBlank, LinePadded,
     LineOptionQuestion}

Documents ==
    UNION {[1..n -> LinePool] : n \in 0..MaxLines} \cup {ScenarioA}

-----------------------------------------------------------------------------
(* extract_questions_from_pdf, lines 52-97 *)

\* [p.strip() for p in text.split('\n') if p.strip()]
RECURSIVE SplitParagraphs(_)
SplitParagraphs(lines) ==
    IF lines = <<>> THEN <<>>
    ELSE IF strip(Head(lines)) # <<>>
         THEN <<strip(Head(lines))>> \o SplitParagraphs(Tail(lines))
         ELSE SplitParagraphs(Tail(lines))

Digits == <<"0", "1", "2", "3", "4", "5", "6", "7", "8", "9">>

\* str(n) of a non-negative int
RECURSIVE str(_)
str(n) ==
    IF n < 10 THEN <<Digits[n + 1]>>
    ELSE str(n \div 10) \o <<Digits[(n % 10) + 1]>>

\* re.match(r'^\s*\(([a-d])\)\s*(.*)$', para, re.IGNORECASE) is not None
\* (a paragraph holds no "\n", so (.*)$ always reaches the end)
OptionMatch(para) ==
    LET i == SkipSpaces(para, 1)
    IN  /\ i + 2 <= Len(para)
        /\ para[i] = "("
        /\ IsLetterAD(para[i + 1])
        /\ para[i + 2] = ")"

\* option_match.group(2)
OptionBody(para) ==
    LET i == SkipSpaces(para, 1)
    IN  SubSeq(para, SkipSpaces(para, i + 3), Len(para))

\* the dict of lines 75-82
NewQuestion(number, para) ==
    [number |-> str(number), text |-> para, subject |-> "None",
     options |-> <<>>, answer |-> "None", marked |-> FALSE]

\* lines 94-95 without the test of line 94
FlushCurrent_Unguarded(qs, cur) ==
    Append(qs, IF cur # <<>> THEN cur[1] ELSE NewQuestion(0, <<>>))

\* line 71 writing over the last saved question
FlushCurrent_Overwrite(qs, cur) ==
    IF cur = <<>> THEN qs
    ELSE IF qs = <<>> THEN <<cur[1]>>
    ELSE [qs EXCEPT ![Len(qs)] = cur[1]]

\* lines 70-72: the question being built is saved before a new one starts
FlushCurrent(qs, cur) == IF cur # <<>> THEN Append(qs, cur[1]) ELSE qs

\* line 72 outside the if of line 70
NextNumber_Always(n, cur) == n + 1

\* line 72: the counter moves on only when a question was saved
NextNumber(n, cur) == IF cur # <<>> THEN n + 1 ELSE n

\* line 88 skipping a body the list already holds
WithOption_NoRepeat(q, para) ==
    IF \E i \in 1..Len(q.options) : q.options[i] = OptionBody(para)
    THEN q
    ELSE [q EXCEPT !.options = Append(@, OptionBody(para))]

\* line 88
WithOption(q, para) == [q EXCEPT !.options = Append(@, OptionBody(para))]

\* line 91 without the line break
WithText_NoBreak(q, para) == [q EXCEPT !.text = @ \o para]

\* line 91
WithText(q, para) == [q EXCEPT !.text = @ \o <<"\n">> \o para]

\* lines 54-64: the text is read, split into paragraphs, and the loop starts
Upload ==
    /\ pc = "idle"
    /\ \E lines \in Documents : paragraphs' = SplitParagraphs(lines)
    /\ questions' = <<>>
    /\ current_question' = <<>>
    /\ question_number' = 1
    /\ pos' = 1
    /\ pc' = "assemble"
    /\ UNCHANGED <<classifier, qi, text_arg, verdict>>
    /\ UNCHANGED <<classifier_calls, session>>

\* lines 68-82: the paragraph starts a new question
StartQuestion ==
    /\ pc = "assemble"
    /\ pos <= Len(paragraphs)
    /\ is_question(paragraphs[pos])
    /\ questions' = FlushCurrent(questions, current_question)
    /\ question_number' = NextNumber(question_number, current_question)
    /\ current_question' = <<NewQuestion(question_number', paragraphs[pos])>>
    /\ pos' = pos + 1
    /\ UNCHANGED <<classifier, pc, paragraphs, qi, text_arg, verdict>>
    /\ UNCHANGED <<classifier_calls, session>>

\* lines 83-88 with the option test not under the else of line 68
AppendOption_Unordered ==
    /\ pc = "assemble"
    /\ pos <= Len(paragraphs)
    /\ current_question # <<>>
    /\ OptionMatch(paragraphs[pos])
    /\ current_question' = <<WithOption(current_question[1], paragraphs[pos])>>
    /\ pos' = pos + 1
    /\ UNCHANGED <<classifier, pc, paragraphs, questions, question_number, qi,
                   text_arg, verdict>>
    /\ UNCHANGED <<classifier_calls, session>>

\* lines 83-88: an option line of the question being built
AppendOption ==
    /\ pc = "assemble"
    /\ pos <= Len(paragraphs)
    /\ current_question # <<>>
    /\ OptionMatch(paragraphs[pos])
    /\ ~is_question(paragraphs[pos])
    /\ current_question' = <<WithOption(current_question[1], paragraphs[pos])>>
    /\ pos' = pos + 1
    /\ UNCHANGED <<classifier, pc, paragraphs, questions, question_number, qi,
                   text_arg, verdict>>
    /\ UNCHANGED <<classifier_calls, session>>

\* lines 89-91: any other line continues the text of the question being built
AppendText ==
    /\ pc = "assemble"
    /\ pos <= Len(paragraphs)
    /\ current_question # <<>>
    /\ ~OptionMatch(paragraphs[pos])
    /\ ~is_question(paragraphs[pos])
    /\ current_question' = <<WithText(current_question[1], paragraphs[pos])>>
    /\ pos' = pos + 1
    /\ UNCHANGED <<classifier, pc, paragraphs, questions, question_number, qi,
                   text_arg, verdict>>
    /\ UNCHANGED <<classifier_calls, session>>

\* line 83 false, but the paragraph is taken as the start of a question
SkipParagraph_Keep ==
    /\ pc = "assemble"
    /\ pos <= Len(paragraphs)
    /\ current_question = <<>>
    /\ ~is_question(paragraphs[pos])
    /\ current_question' = <<NewQuestion(question_number, paragraphs[pos])>>
    /\ pos' = pos + 1
    /\ UNCHANGED <<classifier, pc, paragraphs, questions, question_number, qi,
                   text_arg, verdict>>
    /\ UNCHANGED <<classifier_calls, session>>

\* line 83 false: no question is being built, the paragraph is skipped
SkipParagraph ==
    /\ pc = "assemble"
    /\ pos <= Len(paragraphs)
    /\ current_question = <<>>
    /\ ~is_question(paragraphs[pos])
    /\ pos' = pos + 1
    /\ UNCHANGED <<classifier, pc, paragraphs, questions, current_question,
                   question_number, qi, text_arg, verdict>>
    /\ UNCHANGED <<classifier_calls, session>>

\* lines 93-97 and 322-324: the last question is saved, the list is returned
\* to main, whose loop starts
ReturnQuestions ==
    /\ pc = "assemble"
    /\ pos > Len(paragraphs)
    /\ questions' = FlushCurrent(questions, current_question)
    /\ qi' = 1
    /\ pc' = "classify"
    /\ UNCHANGED <<classifier, paragraphs, pos, current_question,
                   question_number, text_arg, verdict>>
    /\ UNCHANGED <<classifier_calls, session>>

-----------------------------------------------------------------------------
(* classify_question, lines 99-104, and the loop of main, lines 324-337 *)

CATEGORIES == {"Mathematics", "Physics", "Chemistry"}

\* lines 101-104 without the test of line 101
classify_question_Unchecked(question_text) == CATEGORIES

\* lines 101-104 when the call returns: the top label of the zero-shot
\* pipeline (any of the candidate labels), or None without a classifier
classify_question(question_text) ==
    IF classifier # "None" THEN CATEGORIES ELSE {"None"}

\* line 102 is reached when line 101 finds a classifier: the call is made
\* with the text and candidate_labels=CATEGORIES
CallsAfter(calls, question_text) ==
    IF classifier # "None"
    THEN Append(calls, [text |-> question_text, candidate_labels |-> CATEGORIES])
    ELSE calls

OptionA == <<"O", "p", "t", "i", "o", "n", " ", "A">>
OptionB == <<"O", "p", "t", "i", "o", "n", " ", "B">>
OptionC == <<"O", "p", "t", "i", "o", "n", " ", "C">>
OptionD == <<"O", "p", "t", "i", "o", "n", " ", "D">>
ForQuestion == <<" ", "f", "o", "r", " ", "q", "u", "e", "s", "t", "i", "o", "n", " ">>

\* lines 329-334
MockOptions(number) ==
    <<OptionA \o ForQuestion \o number, OptionB \o ForQuestion \o number,
      OptionC \o ForQuestion \o number, OptionD \o ForQuestion \o number>>

\* line 328 testing for fewer than four options
Backfill_FewerThanFour(q) ==
    IF Len(q.options) < 4 THEN [q EXCEPT !.options = MockOptions(q.number)] ELSE q

\* line 328 dropped and the mock options added to the list
Backfill_Unguarded(q) == [q EXCEPT !.options = @ \o MockOptions(q.number)]

\* lines 328-334: mock options are added if none were found
Backfill(q) ==
    IF q.options = <<>> THEN [q EXCEPT !.options = MockOptions(q.number)] ELSE q

\* lines 325-334, one pass of the loop in which the classifier call returns
ClassifyAndBackfill ==
    /\ pc = "classify"
    /\ qi <= Len(questions)
    /\ \E label \in classify_question(questions[qi].text) :
          questions' = [questions EXCEPT
                           ![qi] = Backfill([@ EXCEPT !.subject = label])]
    /\ qi' = qi + 1
    /\ classifier_calls' = CallsAfter(classifier_calls, questions[qi].text)
    /\ UNCHANGED session
    /\ UNCHANGED <<classifier, pc, paragraphs, pos, current_question,
                   question_number, text_arg, verdict>>

\* line 102 raises: classify_question and main have no handler, the exception
\* leaves main and the script run ends
ClassifierRaises ==
    /\ pc = "classify"
    /\ qi <= Len(questions)
    /\ classifier # "None"
    /\ pc' = "raised"
    /\ classifier_calls' = CallsAfter(classifier_calls, questions[qi].text)
    /\ UNCHANGED session
    /\ UNCHANGED <<classifier, paragraphs, pos, questions, current_question,
                   question_number, qi, text_arg, verdict>>

\* line 337: the loop is over, the questions go to create_test_interface
StartInterface ==
    /\ pc = "classify"
    /\ qi > Len(questions)
    /\ pc' = "interface"
    /\ UNCHANGED <<classifier, paragraphs, pos, questions, current_question,
                   question_number, qi, text_arg, verdict>>
    /\ UNCHANGED <<classifier_calls, session>>

\* lines 13-17 have run, no file is uploaded yet
Init ==
    /\ classifier \in {"None", "pipeline"}
    /\ pc = "idle"
    /\ paragraphs = <<>>
    /\ pos = 1
    /\ questions = <<>>
    /\ current_question = <<>>
    /\ question_number = 1
    /\ qi = 1
    /\ text_arg = <<>>
    /\ verdict = "none"
    /\ classifier_calls = <<>>
    /\ session_answers = <<>>
    /\ session_marked = <<>>
    /\ session_current = <<>>

Next ==
    \/ Upload
    \/ StartQuestion
    \/ AppendOption
    \/ AppendText
    \/ SkipParagraph
    \/ ReturnQuestions
    \/ ClassifyAndBackfill
    \/ ClassifierRaises
    \/ StartInterface

Spec == Init /\ [][Next]_vars

-----------------------------------------------------------------------------
(* is_question called on its own, on one stripped non-empty line *)

Spaces(n) == [i \in 1..n |-> " "]

Fill(c, n) == [i \in 1..n |-> c]

ArgWords == { <<>>, <<"Q">>, <<"Q", "u", "e", "s", "t", "i", "o", "n">> }

ArgGaps == { <<>>, <<" ">>, <<"\t">>, Spaces(10), Spaces(11) }

ArgNumbers == { <<>>, <<"3", ".">>, <<"1", "2", ")">>, <<"7">>, <<".">> }

ArgPhrases ==
    { <<>>,
      <<" ", "W", "h", "a", "t">>,
      <<" ", "S", "o", "l", ".">>,
      <<" ", "A", "N", "S", ".", " ", "w", "h", "i", "c", "h">>,
      <<"U+0130">> }

ArgTails == { <<>>, <<"b">> }

\* the lines is_question is tried on, as line 60 hands them over
QuestionArgs ==
    { strip(w \o g \o n \o p \o Fill(c, k) \o t) :
        w \in ArgWords, g \in ArgGaps, n \in ArgNumbers, p \in ArgPhrases,
        c \in {"x", " "}, k \in 0..MaxFill, t \in ArgTails } \ { <<>> }

InitIsQuestion ==
    /\ classifier \in {"None", "pipeline"}
    /\ pc = "call"
    /\ paragraphs = <<>>
    /\ pos = 1
    /\ questions = <<>>
    /\ current_question = <<>>
    /\ question_number = 1
    /\ qi = 1
    /\ text_arg \in QuestionArgs
    /\ verdict = FALSE
    /\ classifier_calls = <<>>
    /\ session_answers = <<>>
    /\ session_marked = <<>>
    /\ session_current = <<>>

\* lines 22-50: the call returns
CallIsQuestion ==
    /\ pc = "call"
    /\ verdict' = is_question(text_arg)
    /\ pc' = "returned"
    /\ UNCHANGED <<classifier, paragraphs, pos, questions, current_question,
                   question_number, qi, text_arg>>
    /\ UNCHANGED <<classifier_calls, session>>

NextIsQuestion == CallIsQuestion

SpecIsQuestion == InitIsQuestion /\ [][NextIsQuestion]_vars

-----------------------------------------------------------------------------
(* The line classifier in the words of its description *)

\* the phrase occurs in the paragraph, letter case ignored
ContainsIgnoreCase(phrase, para) ==
    \E i \in 1..(Len(para) - Len(phrase) + 1) :
        \A k \in 1..Len(phrase) : LowerChar(para[i + k - 1]) = <<phrase[k]>>

HasSolutionIndicator(para) ==
    \E phrase \in solution_indicators : ContainsIgnoreCase(phrase, para)

HasQuestionIndicator(para) ==
    \E phrase \in question_indicators : ContainsIgnoreCase(phrase, para)

\* the whole paragraph is an optional number, an optional period and one
\* letter a-d, white space allowed before the letter
AnswerKeyForm(para) ==
    /\ Len(para) >= 1
    /\ IsLetterAD(para[Len(para)])
    /\ \E nd \in 0..(Len(para) - 1), np \in {0, 1} :
          /\ nd + np <= Len(para) - 1
          /\ \A i \in 1..nd : IsDigit(para[i])
          /\ np = 1 => para[nd + 1] = "."
          /\ \A i \in (nd + np + 1)..(Len(para) - 1) : IsSpace(para[i])

\* the head is an optional "Q" or "Question", optional white space, digits,
\* then "." or ")"
NumberingForm(head) ==
    \E word \in { <<>>, <<"q">>, <<"q", "u", "e", "s", "t", "i", "o", "n">> } :
        /\ Len(word) <= Len(head)
        /\ \A i \in 1..Len(word) : LowerChar(head[i]) = <<word[i]>>
        /\ \E b \in Len(word)..Len(head), c \in 1..Len(head) :
              /\ b < c
              /\ c < Len(head)
              /\ \A i \in (Len(word) + 1)..b : IsSpace(head[i])
              /\ \A i \in (b + 1)..c : IsDigit(head[i])
              /\ head[c + 1] \in {".", ")"}

\* the first n characters of the paragraph, or all of it when it is shorter
FirstCharacters(para, n) ==
    [i \in 1..(IF Len(para) < n THEN Len(para) ELSE n) |-> para[i]]

\* C5: is_question returns false for every paragraph that is shorter than 20
\* characters, or contains a solution indicator (letter case ignored), or is
\* an answer-key row, whatever acceptance signal the paragraph also holds.
C5_RejectionsWin ==
    (pc = "returned" /\ (\/ Len(text_arg) < 20
                         \/ HasSolutionIndicator(text_arg)
                         \/ AnswerKeyForm(text_arg)))
        => verdict = FALSE

\* C6: a paragraph that passes the length, solution-indicator and
\* answer-key-row checks is a question start exactly when it holds a question
\* indicator phrase (letter case ignored) or its first 20 characters have the
\* numbering form.
C6_AcceptanceExact ==
    (pc = "returned"
        /\ Len(lower(text_arg)) >= 20
        /\ ~HasSolutionIndicator(text_arg)
        /\ ~AnswerKeyRow(strip(lower(text_arg))))
    => (verdict = (\/ HasQuestionIndicator(text_arg)
                   \/ NumberingForm(FirstCharacters(text_arg, 20))))

\* a paragraph accepted for its numbering alone
C6_Witness ==
    /\ pc = "returned"
    /\ verdict = TRUE
    /\ Len(text_arg) >= 20
    /\ ~HasQuestionIndicator(text_arg)
    /\ NumberingForm(FirstCharacters(text_arg, 20))

-----------------------------------------------------------------------------
(* The assembler in the words of its description *)

\* every paragraph the documents can hold
ParagraphPool ==
    {strip(l) : l \in LinePool \cup {ScenarioA[i] : i \in 1..Len(ScenarioA)}}
        \ { <<>> }

\* is_question of each of them
IsQuestionStart == [p \in ParagraphPool |-> is_question(p)]

\* the positions of the paragraphs that start a question
StartPositions(paras) == {i \in 1..Len(paras) : IsQuestionStart[paras[i]]}

\* the k-th smallest of the start positions
KthStart(starts, k) ==
    CHOOSE i \in starts : Cardinality({j \in starts : j <= i}) = k

\* the position of the last paragraph before the start after the k-th
SegmentEnd(starts, last, k) ==
    IF k < Cardinality(starts) THEN KthStart(starts, k + 1) - 1 ELSE last

\* the paragraphs i..j that are not option lines, each after a line break
RECURSIVE ContinuationText(_, _, _)
ContinuationText(paras, i, j) ==
    IF i > j THEN <<>>
    ELSE (IF OptionMatch(paras[i]) THEN <<>> ELSE <<"\n">> \o paras[i])
         \o ContinuationText(paras, i + 1, j)

\* the bodies of the option lines among the paragraphs i..j
RECURSIVE OptionBodies(_, _, _)
OptionBodies(paras, i, j) ==
    IF i > j THEN <<>>
    ELSE (IF OptionMatch(paras[i]) THEN <<OptionBody(paras[i])>> ELSE <<>>)
         \o OptionBodies(paras, i + 1, j)

\* the text of the k-th question of a document with these start positions
ExpectedText(paras, starts, k) ==
    paras[KthStart(starts, k)]
        \o ContinuationText(paras, KthStart(starts, k) + 1,
                            SegmentEnd(starts, Len(paras), k))

\* the parsed options of the k-th question
ExpectedOptions(paras, starts, k) ==
    OptionBodies(paras, KthStart(starts, k) + 1, SegmentEnd(starts, Len(paras), k))

OptionLetters == <<"A", "B", "C", "D">>

\* "Option <letter> for question <number>"
Placeholder(j, number) ==
    <<"O", "p", "t", "i", "o", "n", " ", OptionLetters[j], " ", "f", "o", "r",
      " ", "q", "u", "e", "s", "t", "i", "o", "n", " ">> \o number

\* extract_questions_from_pdf has returned
Assembled == pc \in {"classify", "raised", "interface"}

\* C1: the assembler returns one question per paragraph that is a question
\* start, and their numbers are "1", "2", ..., "k" in output order.
C1_CountAndNumbers ==
    Assembled =>
        /\ Len(questions) = Cardinality(StartPositions(paragraphs))
        /\ \A k \in 1..Len(questions) : questions[k].number = str(k)

\* two questions came out of a document that also holds other paragraphs
C1_Witness ==
    /\ pc = "interface"
    /\ Len(questions) >= 2
    /\ Len(paragraphs) > Len(questions)

\* "9.8", "10", "1:2"
Body98 == <<"9", ".", "8">>
Body10 == <<"1", "0">>
Body12 == <<"1", ":", "2">>

\* C2: no paragraph with a solution indicator is part of a question's text,
\* also not when it arrives while a question is being built; Scenario A gives
\* two questions with the texts of their first lines and the parsed options.
C2_SolutionLinesExcluded ==
    /\ \A k \in 1..Len(questions) : ~HasSolutionIndicator(questions[k].text)
    /\ current_question # <<>> => ~HasSolutionIndicator(current_question[1].text)
    /\ (Assembled /\ paragraphs = ScenarioA) =>
          /\ Len(questions) = 2
          /\ questions[1].text = LineQ1
          /\ questions[1].options = <<Body98, Body10>>
          /\ questions[2].text = LineQ2
          /\ questions[2].options = <<Body12>>

\* C3: a failing classifier call leaves the question's subject unset and the
\* pipeline goes on to return every question; the failure never ends the run.
C3_ClassifierFailureContained ==
    /\ pc # "raised"
    /\ pc = "interface" => Len(questions) = Cardinality(StartPositions(paragraphs))

\* C4: without a classifier no question gets a subject and nothing fails, and
\* the number, order, text and options of the questions handed to the
\* interface are fixed by the paragraphs alone, with or without a classifier.
C4_NoClassifier ==
    /\ classifier = "None" =>
          /\ pc # "raised"
          /\ \A k \in 1..Len(questions) : questions[k].subject = "None"
    /\ pc = "interface" =>
          LET starts == StartPositions(paragraphs)
          IN  /\ Len(questions) = Cardinality(starts)
              /\ \A k \in 1..Len(questions) :
                    /\ questions[k].number = str(k)
                    /\ questions[k].text = ExpectedText(paragraphs, starts, k)
                    /\ questions[k].options =
                          IF ExpectedOptions(paragraphs, starts, k) = <<>>
                          THEN [j \in 1..4 |-> Placeholder(j, str(k))]
                          ELSE ExpectedOptions(paragraphs, starts, k)

\* two questions reached the interface with no classifier configured
C4_Witness ==
    /\ classifier = "None"
    /\ pc = "interface"
    /\ Len(questions) >= 2
    /\ \A k \in 1..Len(questions) : questions[k].subject = "None"

\* C7: one pass of the loop of main gives a question without options exactly
\* the four placeholders of its number, leaves the options of a question that
\* has some as they are, and touches no other question.
C7_BackfillOnlyWhenEmpty ==
    [][(pc = "classify" /\ qi' = qi + 1) =>
          /\ Len(questions') = Len(questions)
          /\ \A k \in 1..Len(questions) : k # qi => questions'[k] = questions[k]
          /\ questions[qi].options = <<>> =>
                /\ Len(questions'[qi].options) = 4
                /\ \A j \in 1..4 : questions'[qi].options[j] =
                                      Placeholder(j, questions[qi].number)
          /\ questions[qi].options # <<>> =>
                questions'[qi].options = questions[qi].options]_vars

\* after the loop: one question was backfilled, another keeps fewer than four
\* parsed options
C7_Witness ==
    /\ pc = "interface"
    /\ LET starts == StartPositions(paragraphs)
       IN  /\ \E k \in 1..Len(questions) :
                 /\ ExpectedOptions(paragraphs, starts, k) = <<>>
                 /\ Len(questions[k].options) = 4
           /\ \E k \in 1..Len(questions) :
                 /\ ExpectedOptions(paragraphs, starts, k) # <<>>
                 /\ Len(questions[k].options) < 4

\* C8: the backfill step applied again to a question that has been through
\* it leaves the question's options as they are.
C8_BackfillIdempotent ==
    Assembled =>
        \A k \in 1..Len(questions) :
            k < qi => Backfill(questions[k]).options = questions[k].options

\* a question that received the placeholders and one that kept its own options
\* have both been through the step
C8_Witness ==
    /\ Assembled
    /\ \E k \in 1..Len(questions) :
          k < qi /\ questions[k].options[1] = Placeholder(1, questions[k].number)
    /\ \E k \in 1..Len(questions) :
          k < qi /\ questions[k].options[1] # Placeholder(1, questions[k].number)

\* C9: a question's text is the paragraph that started it followed by, each
\* after a line break and in source order, the paragraphs up to the next
\* question start that are not option lines, and nothing else.
C9_TextIsStartPlusContinuations ==
    Assembled =>
        LET starts == StartPositions(paragraphs)
        IN  \A k \in 1..Len(questions) :
                /\ k <= Cardinality(starts)
                /\ questions[k].text = ExpectedText(paragraphs, starts, k)

\* a question with a continuation line and an option line between its start
\* and the next start
C9_Witness ==
    /\ Assembled
    /\ \E k \in 1..Len(questions) :
          /\ Contains(<<"\n">>, questions[k].text)
          /\ ExpectedOptions(paragraphs, StartPositions(paragraphs), k) # <<>>
          /\ k < Len(questions)

\* C10: with no paragraphs, or none that starts a question, nothing is ever
\* flushed, no question is being built, the run does not fail, and the
\* question list returned is empty.
C10_NoStartNoQuestion ==
    StartPositions(paragraphs) = {} =>
        /\ questions = <<>>
        /\ current_question = <<>>
        /\ pc # "raised"

\* a document with paragraphs, none a question start, went through to the end
C10_Witness ==
    /\ pc = "interface"
    /\ paragraphs # <<>>
    /\ StartPositions(paragraphs) = {}
    /\ questions = <<>>

\* C11: the classifier is called only after assembly, once per assembled
\* question and in order, each call with that question's whole text and the
\* candidate labels Mathematics, Physics, Chemistry; when the run has ended
\* every question has had its call and its subject written by the loop.
C11_OneCallPerQuestion ==
    /\ pc \in {"idle", "assemble"} => classifier_calls = <<>>
    /\ Len(classifier_calls) <= Len(questions)
    /\ \A c \in 1..Len(classifier_calls) :
          /\ c <= Len(questions)
          /\ classifier_calls[c].text = questions[c].text
          /\ classifier_calls[c].candidate_labels =
                {"Mathematics", "Physics", "Chemistry"}
    /\ (classifier # "None" /\ pc \in {"raised", "interface"}) =>
          /\ Len(classifier_calls) = Len(questions)
          /\ qi = Len(questions) + 1

\* the paragraph has the option-line form: "(", a letter a-d, ")", then text
OptionLineForm(para) ==
    /\ Len(para) >= 3
    /\ para[1] = "("
    /\ IsLetterAD(para[2])
    /\ para[3] = ")"

\* the text after the ")" of an option line, white space trimmed
OptionLineBody(para) == strip([i \in 1..(Len(para) - 3) |-> para[i + 3]])

\* C12: a paragraph that is a question start always starts a new question,
\* also when it has the option-line form: the question being built is
\* flushed unchanged, and the new one has the paragraph as its text and no
\* options.
C12_QuestionStartFirst ==
    [][(pc = "assemble" /\ pos' = pos + 1 /\ IsQuestionStart[paragraphs[pos]]) =>
          /\ questions' = IF current_question # <<>>
                          THEN Append(questions, current_question[1])
                          ELSE questions
          /\ current_question' # <<>>
          /\ current_question'[1].text = paragraphs[pos]
          /\ current_question'[1].options = <<>>]_vars

\* a paragraph of the option-line form that is a question start has just
\* started a question while another one was being built
C12_Witness ==
    /\ pc = "assemble"
    /\ pos > 1
    /\ OptionLineForm(paragraphs[pos - 1])
    /\ IsQuestionStart[paragraphs[pos - 1]]
    /\ Len(questions) >= 1
    /\ current_question # <<>>
    /\ current_question[1].text = paragraphs[pos - 1]
    /\ current_question[1].options = <<>>

\* the bodies of the option lines among the paragraphs i..j, in source order
RECURSIVE SourceOptions(_, _, _)
SourceOptions(paras, i, j) ==
    IF i > j THEN <<>>
    ELSE (IF OptionLineForm(paras[i]) THEN <<OptionLineBody(paras[i])>> ELSE <<>>)
         \o SourceOptions(paras, i + 1, j)

\* C13: after assembly a question's options are the bodies of the option
\* lines between its start and the next start, in source order, repeated
\* letters and repeated bodies included.  (The loop of main replaces only an
\* empty list.)
C13_OptionsInSourceOrder ==
    Assembled =>
        LET starts == StartPositions(paragraphs)
        IN  \A k \in 1..Len(questions) :
                /\ k <= Cardinality(starts)
                /\ LET found == SourceOptions(paragraphs, KthStart(starts, k) + 1,
                                              SegmentEnd(starts, Len(paragraphs), k))
                   IN  (k >= qi \/ found # <<>>) => questions[k].options = found

\* a question has the bodies of two option lines with the same letter, and
\* another the same body twice
C13_Witness ==
    /\ pc = "classify"
    /\ qi = 1
    /\ \E k \in 1..Len(questions) :
          questions[k].options \in {<<Body98, Body12>>, <<Body98, Body98>>}

\* the position of the first question start, or one past the last paragraph
FirstStart(paras) ==
    IF StartPositions(paras) = {} THEN Len(paras) + 1
    ELSE KthStart(StartPositions(paras), 1)

\* C14: a paragraph before the first question start is discarded: while only
\* such paragraphs have been read there is no question at all, and the first
\* question's text and options come from its start paragraph and the
\* paragraphs after it alone.
C14_LeadingParagraphsDiscarded ==
    /\ (pc = "assemble" /\ pos <= FirstStart(paragraphs)) =>
          /\ questions = <<>>
          /\ current_question = <<>>
    /\ (pc = "classify" /\ qi = 1 /\ questions # <<>>) =>
          LET starts == StartPositions(paragraphs)
              first  == FirstStart(paragraphs)
              last   == SegmentEnd(starts, Len(paragraphs), 1)
          IN  /\ questions[1].text =
                    paragraphs[first] \o ContinuationText(paragraphs, first + 1, last)
              /\ questions[1].options = SourceOptions(paragraphs, first + 1, last)

\* an option line and another line came before the first question start
C14_Witness ==
    /\ pc = "interface"
    /\ questions # <<>>
    /\ \E i, j \in 1..(FirstStart(paragraphs) - 1) :
          /\ OptionLineForm(paragraphs[i])
          /\ ~OptionLineForm(paragraphs[j])

\* C15: during assembly the output list only grows at its end and no step
\* changes a question already in it; each question in it is complete, that
\* is, it has the text and the options of its whole segment.
C15_FlushedQuestionsFrozen ==
    /\ [](pc = "assemble" =>
            LET starts == StartPositions(paragraphs)
            IN  \A k \in 1..Len(questions) :
                    /\ k <= Cardinality(starts)
                    /\ questions[k].number = str(k)
                    /\ questions[k].text = ExpectedText(paragraphs, starts, k)
                    /\ questions[k].options =
                          SourceOptions(paragraphs, KthStart(starts, k) + 1,
                                        SegmentEnd(starts, Len(paragraphs), k)))
    /\ [][pc = "assemble" =>
            /\ Len(questions') >= Len(questions)
            /\ \A k \in 1..Len(questions) : questions'[k] = questions[k]]_vars

\* a question is in the output while later paragraphs have gone into the
\* question being built
C15_Witness ==
    /\ pc = "assemble"
    /\ Len(questions) >= 1
    /\ current_question # <<>>
    /\ current_question[1].options # <<>>

-----------------------------------------------------------------------------
(* The script run as a whole: Streamlit runs main from top to bottom when a  *)
(* file is uploaded and after every widget event; st.session_state is what  *)
(* lasts from one run to the next.  A rerun on the same uploaded file        *)
(* computes the same question list again, so only an upload changes it.      *)
(* The subject tabs (current_subject) are left out: the filtered list they   *)
(* compute is not used by anything displayed.                                *)

\* lines 66-97 run to the end from paragraph i on
RECURSIVE AssembleFrom(_, _, _, _, _)
AssembleFrom(paras, i, qs, cur, n) ==
    IF i > Len(paras) THEN FlushCurrent(qs, cur)
    ELSE IF is_question(paras[i])
         THEN AssembleFrom(paras, i + 1, FlushCurrent(qs, cur),
                           <<NewQuestion(NextNumber(n, cur), paras[i])>>,
                           NextNumber(n, cur))
    ELSE IF cur # <<>>
         THEN AssembleFrom(paras, i + 1, qs,
                           IF OptionMatch(paras[i])
                           THEN <<WithOption(cur[1], paras[i])>>
                           ELSE <<WithText(cur[1], paras[i])>>, n)
    ELSE AssembleFrom(paras, i + 1, qs, cur, n)

\* extract_questions_from_pdf on the lines of the uploaded file
extract_questions_from_pdf(lines) ==
    AssembleFrom(SplitParagraphs(lines), 1, <<>>, <<>>, 1)

\* lines 324-334 run to the end with no call raising: every list the loop can
\* leave, one subject per question from what classify_question can return
ClassifiedAndBackfilled(qs) ==
    { [k \in 1..Len(qs) |-> Backfill([qs[k] EXCEPT !.subject = labels[k]])] :
        labels \in { l \in [1..Len(qs) -> CATEGORIES \cup {"None"}] :
                        \A k \in 1..Len(qs) :
                            l[k] \in classify_question(qs[k].text) } }

\* the uploaded files tried in a session
InterfaceDocuments ==
    { <<LineBlank>>,
      <<LineQ1>>,
      <<LineQ1, LineA98>>,
      <<LineQ1, LineA98, LineQ2>>,
      ScenarioA }

\* what extract_questions_from_pdf returns for each of these files
ExtractedQuestions ==
    [lines \in InterfaceDocuments |-> extract_questions_from_pdf(lines)]

\* dict.get(key): <<>> stands for None, <<v>> for the value v
Get(dict, key) == IF key \in DOMAIN dict THEN dict[key] ELSE <<>>

\* dict[key] = value
Put(dict, key, value) ==
    [k \in DOMAIN dict \cup {key} |-> IF k = key THEN value ELSE dict[k]]

\* the truth value Python gives an answer: None and 0 are false
Truthy(answer) == answer # <<>> /\ answer[1] # 0

\* lines 172-173
InitAnswers(answers, qs) ==
    IF answers = <<>>
    THEN <<[number \in {qs[k].number : k \in 1..Len(qs)} |-> <<>>]>>
    ELSE answers

\* lines 175-176
InitMarked(marked) == IF marked = <<>> THEN << {} >> ELSE marked

\* lines 224-225
InitCurrent(current) == IF current = <<>> THEN <<0>> ELSE current

\* lines 217-219: the colour of the palette button of a question
PaletteStatus(number) ==
    IF number \in session_marked[1] THEN "yellow"
    ELSE IF Truthy(Get(session_answers[1], number)) THEN "green"
    ELSE "red"

\* lines 168-229, create_test_interface(qs) up to the question display: the
\* session keys are set if absent; an empty list ends at the warning of line
\* 199; questions[current_question] of line 227 raises IndexError when the
\* stored index is past the end of the list
ShowInterface(qs) ==
    /\ session_answers' = InitAnswers(session_answers, qs)
    /\ session_marked' = InitMarked(session_marked)
    /\ IF qs = <<>>
       THEN /\ pc' = "no_questions"
            /\ UNCHANGED session_current
       ELSE /\ session_current' = InitCurrent(session_current)
            /\ pc' = IF session_current'[1] < Len(qs) THEN "interface"
                     ELSE "index_error"

\* a file is put into the uploader (the first one or another one in the same
\* session): lines 311-337 run with no classifier call raising
UploadPdf ==
    /\ \E lines \in InterfaceDocuments :
          /\ paragraphs' = SplitParagraphs(lines)
          /\ \E qs \in ClassifiedAndBackfilled(ExtractedQuestions[lines]) :
                /\ questions' = qs
                /\ ShowInterface(qs)
    /\ UNCHANGED <<classifier, pos, current_question, question_number, qi,
                   text_arg, verdict, classifier_calls>>

\* a file is put into the uploader and a classifier call of the loop raises:
\* the run ends at line 325, create_test_interface is not reached
UploadPdfRaises ==
    /\ classifier # "None"
    /\ \E lines \in InterfaceDocuments :
          /\ ExtractedQuestions[lines] # <<>>
          /\ paragraphs' = SplitParagraphs(lines)
          /\ questions' = ExtractedQuestions[lines]
    /\ pc' = "raised"
    /\ UNCHANGED <<classifier, pos, current_question, question_number, qi,
                   text_arg, verdict, classifier_calls, session>>

\* lines 220-221: a palette button is clicked; the buttons are drawn before
\* line 227, so they are there also after an IndexError
ClickPalette ==
    /\ pc \in {"interface", "index_error"}
    /\ \E idx \in 0..(Len(questions) - 1) : session_current' = <<idx>>
    /\ pc' = "interface"
    /\ UNCHANGED <<classifier, paragraphs, pos, questions, current_question,
                   question_number, qi, text_arg, verdict, classifier_calls,
                   session_answers, session_marked>>

\* lines 235-251 and 273-276: an option button of the displayed question is
\* clicked, the callback select_option stores the option's index
select_option ==
    /\ pc = "interface"
    /\ LET current_q == questions[session_current[1] + 1]
       IN  \E option_idx \in 0..(Len(current_q.options) - 1) :
              session_answers' =
                  <<Put(session_answers[1], current_q.number, <<option_idx>>)>>
    /\ UNCHANGED <<classifier, pc, paragraphs, pos, questions, current_question,
                   question_number, qi, text_arg, verdict, classifier_calls,
                   session_marked, session_current>>

\* lines 255-262: the mark button of the displayed question is clicked
ToggleMark ==
    /\ pc = "interface"
    /\ LET number == questions[session_current[1] + 1].number
       IN  session_marked' =
              IF number \in session_marked[1]
              THEN <<session_marked[1] \ {number}>>
              ELSE <<session_marked[1] \cup {number}>>
    /\ UNCHANGED <<classifier, pc, paragraphs, pos, questions, current_question,
                   question_number, qi, text_arg, verdict, classifier_calls,
                   session_answers, session_current>>

\* lines 265-267: Previous is clicked and moves
Previous ==
    /\ pc = "interface"
    /\ session_current[1] > 0
    /\ session_current' = <<session_current[1] - 1>>
    /\ UNCHANGED <<classifier, pc, paragraphs, pos, questions, current_question,
                   question_number, qi, text_arg, verdict, classifier_calls,
                   session_answers, session_marked>>

\* lines 269-271: Next is clicked and moves
NextQuestion ==
    /\ pc = "interface"
    /\ session_current[1] < Len(questions) - 1
    /\ session_current' = <<session_current[1] + 1>>
    /\ UNCHANGED <<classifier, pc, paragraphs, pos, questions, current_question,
                   question_number, qi, text_arg, verdict, classifier_calls,
                   session_answers, session_marked>>

NextInterface ==
    \/ UploadPdf
    \/ UploadPdfRaises
    \/ ClickPalette
    \/ select_option
    \/ ToggleMark
    \/ Previous
    \/ NextQuestion

\* a new browser session: the module is imported, no file is uploaded
SpecInterface == Init /\ [][NextInterface]_vars

-----------------------------------------------------------------------------
(* Claims about the test interface, checked under SpecInterface.             *)

\* the recorded answer of the k-th question of the list
RecordedAnswer(k) == Get(session_answers[1], questions[k].number)

\* C16: while the interface is shown, the palette button of every question
\* is yellow if the question is marked, otherwise green if an option has been
\* selected for it (whichever option, the first one included), otherwise red.
C16_PaletteColours ==
    pc = "interface" =>
        \A k \in 1..Len(questions) :
            PaletteStatus(questions[k].number) =
                IF questions[k].number \in session_marked[1] THEN "yellow"
                ELSE IF RecordedAnswer(k) # <<>> THEN "green"
                ELSE "red"

\* C17: whenever the interface run reaches the question display with a
\* non-empty question list, the stored current_question is an index of the
\* list: 0 <= current_question < number of questions.
C17_CurrentQuestionValid ==
    (pc \in {"interface", "index_error"} /\ questions # <<>>) =>
        /\ session_current # <<>>
        /\ 0 <= session_current[1]
        /\ session_current[1] < Len(questions)

\* C18: while the interface is shown, the recorded answer of every question
\* of the list is unset or the index of one of the question's options; and
\* a newly loaded question list comes up with no question answered.
C18_AnswersValid ==
    /\ [](pc = "interface" =>
            \A k \in 1..Len(questions) :
                \/ RecordedAnswer(k) = <<>>
                \/ RecordedAnswer(k)[1] \in 0..(Len(questions[k].options) - 1))
    /\ [][(questions' # questions /\ pc' = "interface") =>
            \A k \in 1..Len(questions') :
                Get(session_answers'[1], questions'[k].number) = <<>>]_vars

=============================================================================
